---- MODULE Spec2Model ----
(***************************************************************************)
(* Model of the Google Drive clone engine of google_drive_manager.py:      *)
(* the retry helper with_retries, the Drive primitives built on it, the    *)
(* recursive clone (clone_folder_tree, clone_folder_tree_into,             *)
(* copy_single_file, list_children, copy_disk), extract_id_from_url and    *)
(* find_items_with_placeholder; and of the form submission of app.py that  *)
(* calls copy_disk and mails the link.                                     *)
(***************************************************************************)
EXTENDS Integers, Sequences, FiniteSets, TLC

(***************************************************************************)
(* HTTP outcomes of one invocation.  OK stands for a call that returns;    *)
(* every other value is the status of the HttpError it raises.             *)
(***************************************************************************)
OK == 200

\* the tuple of statuses with_retries retries on
TransientStatuses == {403, 429, 500, 502, 503, 504}

\* statuses outside that tuple (bad request, unauthorized, not found)
FatalStatuses == {400, 401, 404}

ErrorStatuses == TransientStatuses \cup FatalStatuses

Outcomes == {OK} \cup ErrorStatuses

\* a loop that runs one attempt too many
max_attempts_plus_one == 6 + 1

max_attempts == 6

(***************************************************************************)
(* Strings are sequences of one-character strings.  An absent (None)       *)
(* Optional[str] argument is the empty sequence: every use the code makes  *)
(* of such an argument (`if full_name and ...', `full_name or TOKEN',      *)
(* `if template:', `if anyone_role:') treats None and "" alike.            *)
(***************************************************************************)
None == <<>>

FOLDER_MIME == "application/vnd.google-apps.folder"

SHORTCUT_MIME == "application/vnd.google-apps.shortcut"

\* any other mimeType (a document or a binary file)
FILE_MIME == "text/plain"

PLACEHOLDER_TOKEN ==
  <<"I", "M", "I", "E", "_", "N", "A", "Z", "W", "I", "S", "K", "O">>

\* absent file id (no targetId, no parent)
NoId == 0

(***************************************************************************)
(* Bounds of the model.                                                    *)
(***************************************************************************)
\* number of children the remote puts in one page of files().list
PageSize == 2

\* depth of the Python call stack at which RecursionError is raised
RecursionLimit == 6

VARIABLES
  rs,          \* with_retries' frame: attempt, delay, position, result
  calls,       \* outcomes of the invocations of func made so far, in order
  waits,       \* arguments of the time.sleep calls made so far, in order
  drive,       \* the source items of the remote store, by file id
  src_id,      \* the id copy_disk clones
  full_name,   \* copy_disk's full_name argument
  anyone_role, \* copy_disk's anyone_role argument
  lock_editors_sharing,
  root_name_template,
  dst_parent_id,
  new_root_id, \* the id clone_folder_tree returned to copy_disk
  pc,          \* position of copy_disk
  stack,       \* call stack below copy_disk, innermost frame last
  created,     \* the items the run created in the remote store, in order
  log,         \* the remote requests executed so far, in order
  err,         \* the exception that left copy_disk, None while there is none
  source_link_or_id, \* copy_disk's source_link_or_id argument
  cloned,      \* what copy_disk returned: the metadata of the new root
  found,       \* what find_items_with_placeholder has yielded, in order
  email,       \* the e-mail field of the form of app.py
  mail         \* the Gmail send requests executed so far, in order

retryVars == <<rs, calls, waits>>

\* what the callers of the clone keep: copy_disk's source argument, the
\* scan's results, the form's e-mail field and the mail sent
outerVars == <<source_link_or_id, found, email, mail>>

cloneVars == <<drive, src_id, full_name, anyone_role, lock_editors_sharing,
               root_name_template, dst_parent_id, new_root_id, pc, stack,
               created, log, err, cloned, outerVars>>

vars == <<rs, calls, waits, drive, src_id, full_name, anyone_role,
          lock_editors_sharing, root_name_template, dst_parent_id,
          new_root_id, pc, stack, created, log, err, source_link_or_id,
          cloned, found, email, mail>>

Last(s) == s[Len(s)]

RECURSIVE SumSeq(_)
SumSeq(s) == IF s = <<>> THEN 0 ELSE Head(s) + SumSeq(Tail(s))

RECURSIVE Pow2(_)
Pow2(n) == IF n = 0 THEN 1 ELSE 2 * Pow2(n - 1)

(***************************************************************************)
(* with_retries.  RetryStart is the frame on entry of the for loop,        *)
(* RetryIter one iteration of the loop body given the outcome of the call  *)
(* of func: pc is "call" while the loop goes on, "returned" after          *)
(* `return func(...)', "raised" after a `raise'.  slept is the argument of *)
(* time.sleep when the iteration sleeps, 0 otherwise.                      *)
(***************************************************************************)
RetryStart ==
  [attempt |-> 1, delay |-> 1, pc |-> "call", result |-> 0, slept |-> 0]

\* a backoff that grows linearly
NextDelay_linear(d) == d + 1

\* delay *= 2
NextDelay(d) == d * 2

\* a tuple that lacks 403
IsTransient_without_403(status) == status \in {429, 500, 502, 503, 504}

\* a test that takes every error status for transient
IsTransient_any_error(status) == status >= 400

\* a tuple with 404 in it
IsTransient_with_404(status) == status \in TransientStatuses \cup {404}

\* status in (403, 429, 500, 502, 503, 504)
IsTransient(status) == status \in TransientStatuses

RetryIter(r, outcome) ==
  IF outcome = OK
    THEN [r EXCEPT !.pc = "returned", !.result = OK, !.slept = 0]
    ELSE IF IsTransient(outcome)
      THEN IF r.attempt = max_attempts
             THEN [r EXCEPT !.pc = "raised", !.result = outcome, !.slept = 0]
             ELSE [r EXCEPT !.attempt = r.attempt + 1,
                            !.delay = NextDelay(r.delay),
                            !.slept = r.delay]
      ELSE [r EXCEPT !.pc = "raised", !.result = outcome, !.slept = 0]

\* the whole loop, func being given as the sequence of its outcomes
RECURSIVE RunRetries(_, _)
RunRetries(r, func) ==
  IF r.pc # "call" \/ func = <<>>
    THEN r
    ELSE RunRetries(RetryIter(r, Head(func)), Tail(func))

with_retries(func) == RunRetries(RetryStart, func)

(***************************************************************************)
(* Name rendering.                                                         *)
(***************************************************************************)
\* `old in s'
Contains(s, old) ==
  \E i \in 1..(Len(s) - Len(old) + 1) : SubSeq(s, i, i + Len(old) - 1) = old

\* s.replace(old, new) for a non-empty old: left to right, non-overlapping
RECURSIVE Replace(_, _, _)
Replace(s, old, new) ==
  IF Len(s) < Len(old)
    THEN s
    ELSE IF SubSeq(s, 1, Len(old)) = old
      THEN new \o Replace(SubSeq(s, Len(old) + 1, Len(s)), old, new)
      ELSE <<Head(s)>> \o Replace(Tail(s), old, new)

\* s.strip()
RECURSIVE Strip(_)
Strip(s) ==
  IF s = <<>> THEN s
  ELSE IF Head(s) = " " THEN Strip(Tail(s))
  ELSE IF Last(s) = " " THEN Strip(SubSeq(s, 1, Len(s) - 1))
  ELSE s

\* s.replace(old, new, 1)
ReplaceFirst(s, old, new) ==
  IF Len(s) < Len(old)
    THEN s
    ELSE LET i == CHOOSE j \in 1..(Len(s) - Len(old) + 2) :
                    /\ j = Len(s) - Len(old) + 2
                       \/ SubSeq(s, j, j + Len(old) - 1) = old
                    /\ \A h \in 1..(j - 1) : SubSeq(s, h, h + Len(old) - 1) # old
         IN IF i = Len(s) - Len(old) + 2
              THEN s
              ELSE SubSeq(s, 1, i - 1) \o new
                   \o SubSeq(s, i + Len(old), Len(s))

\* a rename that substitutes the first occurrence only
_rename_first_occurrence(name, fullName) ==
  IF fullName # None /\ Contains(name, PLACEHOLDER_TOKEN)
    THEN ReplaceFirst(name, PLACEHOLDER_TOKEN, fullName)
    ELSE name

_rename_with_placeholder(name, fullName) ==
  IF fullName # None /\ Contains(name, PLACEHOLDER_TOKEN)
    THEN Replace(name, PLACEHOLDER_TOKEN, fullName)
    ELSE name

\* a render that substitutes an absent value as it stands
_render_root_name_without_marker(template, src_name, fullName) ==
  IF template # None
    THEN Replace(template, PLACEHOLDER_TOKEN, fullName)
    ELSE _rename_with_placeholder(src_name, fullName)

_render_root_name(template, src_name, fullName) ==
  IF template # None
    THEN Replace(template, PLACEHOLDER_TOKEN,
                 IF fullName # None THEN fullName ELSE PLACEHOLDER_TOKEN)
    ELSE _rename_with_placeholder(src_name, fullName)

(***************************************************************************)
(* The remote store.  An item has a name, a mimeType, the ordered list of  *)
(* its children (folders) and the targetId of its shortcutDetails          *)
(* (shortcuts, NoId when the key is missing).                              *)
(***************************************************************************)
Item(name, mime, children, target) ==
  [name |-> name, mimeType |-> mime, children |-> children,
   targetId |-> target]

SrcIds == 1..7

\* the source items: folder 1 holds shortcut 3, folder 2 and file 4;
\* folder 2 holds shortcut 5 and file 6; file 7 lies outside folder 1
SourceItems(t3, t5) ==
  [i \in SrcIds |->
     CASE i = 1 -> Item(<<"R">>, FOLDER_MIME, <<3, 2, 4>>, NoId)
       [] i = 2 -> Item(<<"d">> \o PLACEHOLDER_TOKEN, FOLDER_MIME, <<5, 6>>,
                        NoId)
       [] i = 3 -> Item(PLACEHOLDER_TOKEN \o <<"s">>, SHORTCUT_MIME, <<>>, t3)
       [] i = 4 -> Item(PLACEHOLDER_TOKEN \o <<"+">> \o PLACEHOLDER_TOKEN,
                        FILE_MIME, <<>>, NoId)
       [] i = 5 -> Item(<<"l">>, SHORTCUT_MIME, <<>>, t5)
       [] i = 6 -> Item(PLACEHOLDER_TOKEN \o <<"A", "Z", "W", "I", "S", "K", "O">>,
                        FILE_MIME, <<>>, NoId)
       [] i = 7 -> Item(<<"n">> \o PLACEHOLDER_TOKEN, FILE_MIME, <<>>, NoId)]

\* the items of the store that the run created lie beside the source items,
\* under the ids the remote gave them (above 100)
IsSourceId(id) == id \in DOMAIN drive

\* the positions in created of the items whose parent is parent_id
RECURSIVE CreatedUnder(_, _)
CreatedUnder(parent_id, k) ==
  IF k > Len(created) THEN <<>>
  ELSE IF created[k].parent = parent_id
    THEN <<created[k].id>> \o CreatedUnder(parent_id, k + 1)
    ELSE CreatedUnder(parent_id, k + 1)

\* what `'<parent_id>' in parents' selects: the children the source has,
\* then the items created under parent_id, oldest first
Children(parent_id) ==
  (IF IsSourceId(parent_id) THEN drive[parent_id].children ELSE <<>>)
    \o CreatedUnder(parent_id, 1)

\* what files().get and files().list return of an item
Meta(id) ==
  IF IsSourceId(id)
    THEN [id |-> id, name |-> drive[id].name, mimeType |-> drive[id].mimeType,
          targetId |-> drive[id].targetId]
    ELSE [id |-> id, name |-> created[id - 100].name,
          mimeType |-> created[id - 100].mimeType, targetId |-> NoId]

\* the page of files().list that starts at child number offset
Page(parent_id, offset) ==
  LET all == Children(parent_id)
      last == IF offset + PageSize - 1 < Len(all)
                THEN offset + PageSize - 1 ELSE Len(all)
  IN [files |-> [k \in 1..(last - offset + 1) |-> Meta(all[offset + k - 1])],
      nextPageToken |-> IF last < Len(all) THEN last + 1 ELSE NoId]

(***************************************************************************)
(* extract_id_from_url.  A call that returns is [ok |-> TRUE, id |-> ..],  *)
(* one that raises ValueError is NoMatch.                                  *)
(***************************************************************************)
\* the character class [A-Za-z0-9_\-]
IdChars ==
  {"A", "B", "C", "D", "E", "F", "G", "H", "I", "J", "K", "L", "M", "N", "O",
   "P", "Q", "R", "S", "T", "U", "V", "W", "X", "Y", "Z",
   "a", "b", "c", "d", "e", "f", "g", "h", "i", "j", "k", "l", "m", "n", "o",
   "p", "q", "r", "s", "t", "u", "v", "w", "x", "y", "z",
   "0", "1", "2", "3", "4", "5", "6", "7", "8", "9", "_", "-"}

\* the {20,} of the pattern of a bare identifier
MinBareIdLen == 20

NoMatch == [ok |-> FALSE, id |-> None]

\* re.fullmatch(r"[A-Za-z0-9_\-]{20,}", s)
FullMatchId(s) ==
  Len(s) >= MinBareIdLen /\ \A i \in DOMAIN s : s[i] \in IdChars

\* the greedy group ([A-Za-z0-9_\-]+) read from position k of s
RECURSIVE Group(_, _)
Group(s, k) ==
  IF k <= Len(s) /\ s[k] \in IdChars
    THEN <<s[k]>> \o Group(s, k + 1)
    ELSE <<>>

\* literal lit stands at position p of s
LiteralAt(s, p, lit) ==
  p + Len(lit) - 1 <= Len(s) /\ SubSeq(s, p, p + Len(lit) - 1) = lit

\* re.search of one of the literals lits followed by the group, tried at
\* position p and then at every later one
RECURSIVE Search(_, _, _)
Search(s, lits, p) ==
  IF p > Len(s) THEN NoMatch
  ELSE IF \E lit \in lits :
            LiteralAt(s, p, lit) /\ Group(s, p + Len(lit)) # <<>>
    THEN LET lit == CHOOSE l \in lits :
                      LiteralAt(s, p, l) /\ Group(s, p + Len(l)) # <<>>
         IN [ok |-> TRUE, id |-> Group(s, p + Len(lit))]
  ELSE Search(s, lits, p + 1)

FoldersPattern == {<<"/", "f", "o", "l", "d", "e", "r", "s", "/">>}

FilePattern == {<<"/", "f", "i", "l", "e", "/", "d", "/">>}

\* [?&]id=
QueryPattern == {<<"?", "i", "d", "=">>, <<"&", "i", "d", "=">>}

\* the patterns tried from the bare-identifier test on
RECURSIVE FirstMatch(_, _)
FirstMatch(s, patterns) ==
  IF patterns = <<>> THEN NoMatch
  ELSE IF Search(s, Head(patterns), 1).ok THEN Search(s, Head(patterns), 1)
  ELSE FirstMatch(s, Tail(patterns))

\* an order of the searches that puts the file pattern first
extract_id_from_url_file_first(url_or_id) ==
  LET s == Strip(url_or_id)
  IN IF FullMatchId(s) THEN [ok |-> TRUE, id |-> s]
     ELSE FirstMatch(s, <<FilePattern, FoldersPattern, QueryPattern>>)

extract_id_from_url(url_or_id) ==
  LET s == Strip(url_or_id)
  IN IF FullMatchId(s) THEN [ok |-> TRUE, id |-> s]
     ELSE FirstMatch(s, <<FoldersPattern, FilePattern, QueryPattern>>)

(***************************************************************************)
(* Drive primitives.  Each is with_retries(<request method>, ...) followed *)
(* by .execute() on what with_retries returned.  The request method of the *)
(* client library only builds the HttpRequest object and returns it; the   *)
(* HTTP exchange, and with it every HttpError, happens in execute().       *)
(***************************************************************************)
\* func of the primitives: drive.files().create and the like
RequestMethod == [k \in 1..max_attempts |-> OK]

\* one primitive: op on fileId with the given body, execute() ending in
\* outcome.  builds counts the calls of func, executes those of execute().
Primitive(op, fileId, parent, name, role, origin, outcome) ==
  LET r == with_retries(RequestMethod)
  IN [op |-> op, fileId |-> fileId, parent |-> parent, name |-> name,
      role |-> role, allow |-> TRUE, origin |-> origin, builds |-> r.attempt,
      executes |-> IF r.pc = "returned" THEN 1 ELSE 0,
      outcome |-> IF r.pc = "returned" THEN outcome ELSE r.result]

\* a body that leaves the parents out
create_folder_without_parents(name, parent_id, origin, outcome) ==
  Primitive("create", NoId, NoId, name, "", origin, outcome)

create_folder(name, parent_id, origin, outcome) ==
  Primitive("create", NoId, parent_id, name, "", origin, outcome)

\* a permission that leaves the item discoverable
perm_discoverable(role) ==
  [type |-> "anyone", role |-> role, allowFileDiscovery |-> TRUE]

\* perm = {"type": "anyone", "role": role, "allowFileDiscovery": False}
perm(role) == [type |-> "anyone", role |-> role, allowFileDiscovery |-> FALSE]

\* a grant put on the source instead of the item it is asked for
set_anyone_with_link_permission_on_source(file_id, role, outcome) ==
  Primitive("permission", src_id, NoId, None, role, NoId, outcome)

set_anyone_with_link_permission(file_id, role, outcome) ==
  Primitive("permission", file_id, NoId, None, role, NoId, outcome)

\* body={"writersCanShare": allow}
set_writers_can_share(file_id, allow, outcome) ==
  [Primitive("update", file_id, NoId, None, "", NoId, outcome)
     EXCEPT !.allow = allow]

get_file(file_id, origin, outcome) ==
  Primitive("get", file_id, NoId, None, "", origin, outcome)

list_page(parent_id, page_token, outcome) ==
  Primitive("list", parent_id, page_token, None, "", parent_id, outcome)

copy_file(file_id, name, dst_parent, origin, outcome) ==
  Primitive("copy", file_id, dst_parent, name, "", origin, outcome)

(***************************************************************************)
(* The call stack.  A frame of clone_folder_tree or clone_folder_tree_into *)
(* holds the generator of list_children (files: the rest of the page in    *)
(* hand, page_token) and the two folder ids; a frame of copy_single_file   *)
(* holds src_file and dst_parent_id.  origin is the child of the for loop  *)
(* on whose behalf the frame runs.                                         *)
(***************************************************************************)
NoFile == [id |-> NoId, name |-> None, mimeType |-> "", targetId |-> NoId]

TreeFrame(fn, fpc, src_folder, dst_folder) ==
  [fn |-> fn, pc |-> fpc, src_folder_id |-> src_folder,
   dst_folder_id |-> dst_folder, files |-> <<>>, page_token |-> NoId,
   src_file |-> NoFile, origin |-> src_folder]

CopyFrame(src_file, dst_parent, origin) ==
  [fn |-> "copy_single_file", pc |-> "body", src_folder_id |-> NoId,
   dst_folder_id |-> dst_parent, files |-> <<>>, page_token |-> NoId,
   src_file |-> src_file, origin |-> origin]

Top == stack[Len(stack)]

Caller == SubSeq(stack, 1, Len(stack) - 1)

SetTop(f) == [stack EXCEPT ![Len(stack)] = f]

NoError == [kind |-> "none", status |-> 0]

HttpError(status) == [kind |-> "HttpError", status |-> status]

ValueError == [kind |-> "ValueError", status |-> 0]

RecursionError == [kind |-> "RecursionError", status |-> 0]

\* outcomes of execute() the model draws from: success, a transient and a
\* fatal status
ExecOutcomes == {OK, 503, 404}

\* ids the remote gives to the items it creates
NewId == 100 + Len(created) + 1

NewItem(name, mime, parent, from, origin) ==
  [id |-> NewId, name |-> name, mimeType |-> mime, parent |-> parent,
   src |-> from, origin |-> origin, permissions |-> <<>>,
   writersCanShare |-> TRUE]

\* a handler that swallows the exception and lets the run go on
Raise_swallowed(e) ==
  /\ pc' = pc
  /\ err' = err
  /\ stack' = stack

\* an exception leaves copy_disk: no frame catches it
Raise(e) ==
  /\ pc' = "raised"
  /\ err' = e
  /\ stack' = <<>>

Inputs == <<drive, src_id, full_name, anyone_role, lock_editors_sharing,
            root_name_template, dst_parent_id>>

\* the frames left when the copy_single_file calls on top have returned
RECURSIVE Unwind(_)
Unwind(st) ==
  IF st # <<>> /\ Last(st).fn = "copy_single_file"
    THEN Unwind(SubSeq(st, 1, Len(st) - 1))
    ELSE st

\* a call that is queued and runs once the loops in progress have ended
Call_deferred(c, f) ==
  IF Len(stack) >= RecursionLimit
    THEN Raise(RecursionError)
    ELSE /\ stack' = <<f>> \o SetTop(c)
         /\ UNCHANGED <<pc, err>>

\* the stack after a call pushes frame f (its caller's frame being c)
Call(c, f) ==
  IF Len(stack) >= RecursionLimit
    THEN Raise(RecursionError)
    ELSE /\ stack' = Append(SetTop(c), f)
         /\ UNCHANGED <<pc, err>>

Running == pc = "clone" /\ stack # <<>>

\* the full_name copy_disk hands to clone_folder_tree
FullName == Strip(full_name)

(***************************************************************************)
(* clone_folder_tree                                                       *)
(***************************************************************************)
\* a body without the mimeType check
GetRoot_unchecked ==
  /\ Running /\ Top.fn = "clone_folder_tree" /\ Top.pc = "get"
  /\ \E o \in ExecOutcomes :
       /\ src_id = NoId => o # OK
       /\ log' = Append(log, get_file(src_id, src_id, o))
       /\ IF o # OK THEN Raise(HttpError(o))
          ELSE /\ stack' = SetTop([Top EXCEPT !.pc = "create"])
               /\ UNCHANGED <<pc, err>>
  /\ UNCHANGED <<created, new_root_id, Inputs, retryVars, outerVars, cloned>>

\* src = get_file(drive, src_folder_id) and the mimeType check; the remote
\* has no item for an id it does not know (NoId) and answers with an error
GetRoot ==
  /\ Running /\ Top.fn = "clone_folder_tree" /\ Top.pc = "get"
  /\ \E o \in ExecOutcomes :
       /\ src_id = NoId => o # OK
       /\ log' = Append(log, get_file(src_id, src_id, o))
       /\ IF o # OK THEN Raise(HttpError(o))
          ELSE IF Meta(src_id).mimeType # FOLDER_MIME THEN Raise(ValueError)
          ELSE /\ stack' = SetTop([Top EXCEPT !.pc = "create"])
               /\ UNCHANGED <<pc, err>>
  /\ UNCHANGED <<created, new_root_id, Inputs, retryVars, outerVars, cloned>>

\* dst_folder = create_folder(drive, dst_name, parent_id=dst_parent_id)
CreateRoot ==
  /\ Running /\ Top.fn = "clone_folder_tree" /\ Top.pc = "create"
  /\ \E o \in ExecOutcomes :
       LET dst_name == _render_root_name(root_name_template,
                                         Meta(src_id).name, FullName)
       IN /\ log' = Append(log, create_folder(dst_name, dst_parent_id,
                                              src_id, o))
          /\ IF o # OK
               THEN Raise(HttpError(o)) /\ created' = created
               ELSE /\ created' = Append(created,
                         NewItem(dst_name, FOLDER_MIME, dst_parent_id,
                                 src_id, src_id))
                    /\ stack' = SetTop([Top EXCEPT !.pc = "list",
                                                   !.dst_folder_id = NewId])
                    /\ UNCHANGED <<pc, err>>
  /\ UNCHANGED <<new_root_id, Inputs, retryVars, outerVars, cloned>>

(***************************************************************************)
(* The for loop over list_children, shared by clone_folder_tree and        *)
(* clone_folder_tree_into.                                                 *)
(***************************************************************************)
InLoop == Running /\ Top.fn \in {"clone_folder_tree", "clone_folder_tree_into"}

\* a generator that never passes the continuation token on
ListPage_without_page_token ==
  /\ InLoop
  /\ \/ Top.pc = "list"
     \/ Top.pc = "iter" /\ Top.files = <<>> /\ Top.page_token # NoId
  /\ \E o \in ExecOutcomes :
       LET page_token == NoId
           resp == Page(Top.src_folder_id, 1)
       IN /\ log' = Append(log, list_page(Top.src_folder_id, page_token, o))
          /\ IF o # OK THEN Raise(HttpError(o))
             ELSE /\ stack' = SetTop([Top EXCEPT !.pc = "iter",
                                        !.files = resp.files,
                                        !.page_token = resp.nextPageToken])
                  /\ UNCHANGED <<pc, err>>
  /\ UNCHANGED <<created, new_root_id, Inputs, retryVars, outerVars, cloned>>

\* list_children: the generator asks for the next page
ListPage ==
  /\ InLoop
  /\ \/ Top.pc = "list"
     \/ Top.pc = "iter" /\ Top.files = <<>> /\ Top.page_token # NoId
  /\ \E o \in ExecOutcomes :
       LET page_token == IF Top.pc = "list" THEN NoId ELSE Top.page_token
           resp == Page(Top.src_folder_id,
                        IF page_token = NoId THEN 1 ELSE page_token)
       IN /\ log' = Append(log, list_page(Top.src_folder_id, page_token, o))
          /\ IF o # OK THEN Raise(HttpError(o))
             ELSE /\ stack' = SetTop([Top EXCEPT !.pc = "iter",
                                        !.files = resp.files,
                                        !.page_token = resp.nextPageToken])
                  /\ UNCHANGED <<pc, err>>
  /\ UNCHANGED <<created, new_root_id, Inputs, retryVars, outerVars, cloned>>

\* the child is a folder: create_folder, then clone_folder_tree_into
CreateSubfolder ==
  /\ InLoop /\ Top.pc = "iter" /\ Top.files # <<>>
  /\ Head(Top.files).mimeType = FOLDER_MIME
  /\ \E o \in ExecOutcomes :
       LET child == Head(Top.files)
           sub_name == _rename_with_placeholder(child.name, FullName)
       IN /\ log' = Append(log, create_folder(sub_name, Top.dst_folder_id,
                                              child.id, o))
          /\ IF o # OK
               THEN Raise(HttpError(o)) /\ created' = created
               ELSE /\ created' = Append(created,
                         NewItem(sub_name, FOLDER_MIME, Top.dst_folder_id,
                                 child.id, child.id))
                    /\ Call([Top EXCEPT !.files = Tail(Top.files)],
                            TreeFrame("clone_folder_tree_into", "list",
                                      child.id, NewId))
  /\ UNCHANGED <<new_root_id, Inputs, retryVars, outerVars, cloned>>

\* a loop that hands the same child over again
CallCopySingleFile_same_child_again ==
  /\ InLoop /\ Top.pc = "iter" /\ Top.files # <<>>
  /\ Head(Top.files).mimeType # FOLDER_MIME
  /\ Call(Top,
          CopyFrame(Head(Top.files), Top.dst_folder_id, Head(Top.files).id))
  /\ UNCHANGED <<created, log, new_root_id, Inputs, retryVars, outerVars, cloned>>

\* the child is no folder: copy_single_file(drive, child, dst_folder_id, ..)
CallCopySingleFile ==
  /\ InLoop /\ Top.pc = "iter" /\ Top.files # <<>>
  /\ Head(Top.files).mimeType # FOLDER_MIME
  /\ Call([Top EXCEPT !.files = Tail(Top.files)],
          CopyFrame(Head(Top.files), Top.dst_folder_id, Head(Top.files).id))
  /\ UNCHANGED <<created, log, new_root_id, Inputs, retryVars, outerVars, cloned>>

\* a lock nested under `if anyone_role:'
AfterClone_lock_under_role ==
  IF anyone_role # "" THEN "anyone" ELSE "get"

\* what copy_disk does next once clone_folder_tree has returned
AfterAnyone == IF lock_editors_sharing THEN "lock" ELSE "get"

AfterClone == IF anyone_role # "" THEN "anyone" ELSE AfterAnyone

\* the generator is exhausted: the function returns
LoopReturn ==
  /\ InLoop /\ Top.pc = "iter" /\ Top.files = <<>> /\ Top.page_token = NoId
  /\ stack' = Caller
  /\ IF Caller = <<>>
       THEN pc' = AfterClone /\ new_root_id' = Top.dst_folder_id
       ELSE UNCHANGED <<pc, new_root_id>>
  /\ UNCHANGED <<err, created, log, Inputs, retryVars, outerVars, cloned>>

(***************************************************************************)
(* copy_single_file                                                        *)
(***************************************************************************)
InCopy == Running /\ Top.fn = "copy_single_file"

desired_name == _rename_with_placeholder(Top.src_file.name, FullName)

\* a lookup of targetId that raises when the key is missing
CopyShortcutDangling_raises ==
  /\ InCopy /\ Top.src_file.mimeType = SHORTCUT_MIME
  /\ Top.src_file.targetId = NoId
  /\ Raise([kind |-> "KeyError", status |-> 0])
  /\ UNCHANGED <<created, log, new_root_id, Inputs, retryVars, outerVars, cloned>>

\* a shortcut without targetId: return {}
CopyShortcutDangling ==
  /\ InCopy /\ Top.src_file.mimeType = SHORTCUT_MIME
  /\ Top.src_file.targetId = NoId
  /\ stack' = Unwind(stack)
  /\ UNCHANGED <<pc, err, created, log, new_root_id, Inputs, retryVars, outerVars, cloned>>

\* a shortcut with targetId: get_file of the target, then the recursive call
CopyShortcutResolve ==
  /\ InCopy /\ Top.src_file.mimeType = SHORTCUT_MIME
  /\ Top.src_file.targetId # NoId
  /\ \E o \in ExecOutcomes :
       LET target_id == Top.src_file.targetId
           real_src == [Meta(target_id) EXCEPT !.name = desired_name]
       IN /\ log' = Append(log, get_file(target_id, Top.origin, o))
          /\ IF o # OK THEN Raise(HttpError(o))
             ELSE Call(Top, CopyFrame(real_src, Top.dst_folder_id, Top.origin))
  /\ UNCHANGED <<created, new_root_id, Inputs, retryVars, outerVars, cloned>>

\* anything else: files().copy
CopyFile ==
  /\ InCopy /\ Top.src_file.mimeType # SHORTCUT_MIME
  /\ \E o \in ExecOutcomes :
       /\ log' = Append(log, copy_file(Top.src_file.id, desired_name,
                                       Top.dst_folder_id, Top.origin, o))
       /\ IF o # OK
            THEN Raise(HttpError(o)) /\ created' = created
            ELSE /\ created' = Append(created,
                      NewItem(desired_name, Top.src_file.mimeType,
                              Top.dst_folder_id, Top.src_file.id, Top.origin))
                 /\ stack' = Unwind(stack)
                 /\ UNCHANGED <<pc, err>>
  /\ UNCHANGED <<new_root_id, Inputs, retryVars, outerVars, cloned>>

(***************************************************************************)
(* copy_disk after clone_folder_tree                                       *)
(***************************************************************************)
\* the created items once the remote has carried out a permissions().create
\* request
Granted(req) ==
  [k \in DOMAIN created |->
     IF created[k].id = req.fileId
       THEN [created[k] EXCEPT !.permissions = Append(@, perm(req.role))]
       ELSE created[k]]

\* the created items once the remote has carried out a files().update
\* request
Updated(req) ==
  [k \in DOMAIN created |->
     IF created[k].id = req.fileId
       THEN [created[k] EXCEPT !.writersCanShare = req.allow]
       ELSE created[k]]

Root == created[new_root_id - 100]

\* a grant whose failure is caught and passed over
SetAnyone_failure_ignored ==
  /\ pc = "anyone"
  /\ \E o \in ExecOutcomes :
       /\ log' = Append(log, set_anyone_with_link_permission(new_root_id,
                                                              anyone_role, o))
       /\ created' = IF o = OK THEN Granted(Last(log')) ELSE created
       /\ pc' = AfterAnyone
       /\ UNCHANGED <<stack, err>>
  /\ UNCHANGED <<new_root_id, Inputs, retryVars, outerVars, cloned>>

SetAnyone ==
  /\ pc = "anyone"
  /\ \E o \in ExecOutcomes :
       /\ log' = Append(log, set_anyone_with_link_permission(new_root_id,
                                                              anyone_role, o))
       /\ IF o # OK
            THEN Raise(HttpError(o)) /\ created' = created
            ELSE /\ created' = Granted(Last(log'))
                 /\ pc' = AfterAnyone
                 /\ UNCHANGED <<stack, err>>
  /\ UNCHANGED <<new_root_id, Inputs, retryVars, outerVars, cloned>>

SetWritersCanShare ==
  /\ pc = "lock"
  /\ \E o \in ExecOutcomes :
       /\ log' = Append(log, set_writers_can_share(new_root_id, FALSE, o))
       /\ IF o # OK
            THEN Raise(HttpError(o)) /\ created' = created
            ELSE /\ created' = Updated(Last(log'))
                 /\ pc' = "get"
                 /\ UNCHANGED <<stack, err>>
  /\ UNCHANGED <<new_root_id, Inputs, retryVars, outerVars, cloned>>

\* the link the remote gives for an item
WebViewLink == <<"u", "r", "l">>

\* what copy_disk has returned before it returns
NoMetadata == [id |-> NoId, name |-> None, webViewLink |-> None]

\* return with_retries(drive.files().get, fileId=new_root_id, ...).execute():
\* the response holds the fields the remote has for the item, webViewLink
\* among them or not
ReturnMetadata ==
  /\ pc = "get"
  /\ \E o \in ExecOutcomes :
       /\ log' = Append(log, get_file(new_root_id, NoId, o))
       /\ IF o # OK
            THEN Raise(HttpError(o)) /\ cloned' = cloned
            ELSE /\ pc' = "returned"
                 /\ \E link \in {None, WebViewLink} :
                      cloned' = [id |-> new_root_id, name |-> Root.name,
                                 webViewLink |-> link]
                 /\ UNCHANGED <<stack, err>>
  /\ UNCHANGED <<created, new_root_id, Inputs, retryVars, outerVars>>

(***************************************************************************)
(* copy_disk before clone_folder_tree                                      *)
(***************************************************************************)
\* the ids of items 1..4 as the remote writes them
FileIds ==
  <<<<"1", "A", "b", "_", "-", "0", "x", "x", "x", "x",
      "x", "x", "x", "x", "x", "x", "x", "x", "x", "Z">>,
    <<"2", "f">>,
    <<"3">>,
    <<"4", "-", "_">>>>

\* the item the remote keeps under the id written s, NoId when it has none
Lookup(s) ==
  IF \E n \in DOMAIN FileIds : FileIds[n] = s
    THEN CHOOSE n \in DOMAIN FileIds : FileIds[n] = s
    ELSE NoId

\* a resolver that falls back on the text it was given
ExtractId_unchecked ==
  /\ pc = "extract"
  /\ LET r == extract_id_from_url(source_link_or_id)
     IN /\ src_id' = Lookup(r.id)
        /\ pc' = "clone"
        /\ stack' = <<TreeFrame("clone_folder_tree", "get", src_id', NoId)>>
        /\ err' = err
  /\ UNCHANGED <<drive, full_name, anyone_role, lock_editors_sharing,
                 root_name_template, dst_parent_id, new_root_id, created,
                 log, retryVars, outerVars, cloned>>

\* src_id = extract_id_from_url(source_link_or_id), then the call of
\* clone_folder_tree
ExtractId ==
  /\ pc = "extract"
  /\ LET r == extract_id_from_url(source_link_or_id)
     IN IF ~r.ok
          THEN Raise(ValueError) /\ src_id' = src_id
          ELSE /\ src_id' = Lookup(r.id)
               /\ pc' = "clone"
               /\ stack' = <<TreeFrame("clone_folder_tree", "get", src_id',
                                        NoId)>>
               /\ err' = err
  /\ UNCHANGED <<drive, full_name, anyone_role, lock_editors_sharing,
                 root_name_template, dst_parent_id, new_root_id, created,
                 log, retryVars, outerVars, cloned>>

(***************************************************************************)
(* find_items_with_placeholder, called on the root copy_disk returned and  *)
(* iterated to its end.  A frame of _walk holds the generator of           *)
(* list_children for its folder.                                           *)
(***************************************************************************)
Scanning == pc = "scan" /\ stack # <<>> /\ Top.fn = "_walk"

scanUnchanged ==
  <<created, new_root_id, Inputs, retryVars, cloned, source_link_or_id,
    email, mail>>

\* the dictionary _walk yields for a child
Yielded(child) ==
  [id |-> child.id, name |-> child.name, mimeType |-> child.mimeType]

\* yield from _walk(root_folder_id)
FindItemsStart ==
  /\ pc = "returned"
  /\ pc' = "scan"
  /\ stack' = <<TreeFrame("_walk", "list", cloned.id, NoId)>>
  /\ UNCHANGED <<err, log, found, scanUnchanged>>

\* list_children inside _walk: the generator asks for the next page
WalkListPage ==
  /\ Scanning
  /\ \/ Top.pc = "list"
     \/ Top.pc = "iter" /\ Top.files = <<>> /\ Top.page_token # NoId
  /\ \E o \in ExecOutcomes :
       LET page_token == IF Top.pc = "list" THEN NoId ELSE Top.page_token
           resp == Page(Top.src_folder_id,
                        IF page_token = NoId THEN 1 ELSE page_token)
       IN /\ log' = Append(log, list_page(Top.src_folder_id, page_token, o))
          /\ IF o # OK THEN Raise(HttpError(o))
             ELSE /\ stack' = SetTop([Top EXCEPT !.pc = "iter",
                                        !.files = resp.files,
                                        !.page_token = resp.nextPageToken])
                  /\ UNCHANGED <<pc, err>>
  /\ UNCHANGED <<found, scanUnchanged>>

\* the body of the for loop of _walk: the child is yielded when its name
\* holds the token; a folder is walked after that
WalkChild ==
  /\ Scanning /\ Top.pc = "iter" /\ Top.files # <<>>
  /\ LET child == Head(Top.files)
         rest == [Top EXCEPT !.files = Tail(Top.files)]
     IN /\ found' = IF Contains(child.name, PLACEHOLDER_TOKEN)
                      THEN Append(found, Yielded(child))
                      ELSE found
        /\ IF child.mimeType = FOLDER_MIME
             THEN Call(rest, TreeFrame("_walk", "list", child.id, NoId))
             ELSE stack' = SetTop(rest) /\ UNCHANGED <<pc, err>>
  /\ UNCHANGED <<log, scanUnchanged>>

\* the generator of list_children is exhausted: _walk returns
WalkReturn ==
  /\ Scanning /\ Top.pc = "iter" /\ Top.files = <<>> /\ Top.page_token = NoId
  /\ stack' = Caller
  /\ pc' = IF Caller = <<>> THEN "scanned" ELSE pc
  /\ UNCHANGED <<err, log, found, scanUnchanged>>

(***************************************************************************)
(* app.py: the branch `if submitted:' of the form.  Every exception raised *)
(* inside its try block is caught by `except Exception' and shown; the     *)
(* position "raised" stands for that end.                                  *)
(***************************************************************************)
\* [A-Za-z0-9]
AlNum == IdChars \ {"_", "-"}

\* the class of the local part of EMAIL_REGEX (its backquote, which a
\* string cannot hold here, left out)
LocalChars ==
  AlNum \cup {".", "!", "#", "$", "%", "&", "'", "*", "+", "/", "=", "?",
              "^", "_", "{", "|", "}", "~", "-"}

\* the domain of EMAIL_REGEX: two or more labels joined by dots, a label
\* being 1 to 63 letters, digits and hyphens with no hyphen at either end
DomainMatch(d) ==
  /\ \E i \in DOMAIN d : d[i] = "."
  /\ \A i \in DOMAIN d :
       /\ d[i] \in AlNum \cup {"-", "."}
       /\ (i = 1 \/ d[i - 1] = ".") => d[i] \in AlNum
       /\ (i = Len(d) \/ d[i + 1] = ".") => d[i] \in AlNum
       /\ i + 63 <= Len(d) => \E j \in i..(i + 63) : d[j] = "."

\* EMAIL_REGEX.match(s)
EmailMatch(s) ==
  \E a \in DOMAIN s :
    /\ s[a] = "@" /\ a > 1
    /\ \A i \in 1..(a - 1) : s[i] \in LocalChars
    /\ DomainMatch(SubSeq(s, a + 1, Len(s)))

valid_email(s) == s # None /\ EmailMatch(Strip(s))

valid_full_name(s) ==
  LET t == Strip(s)
  IN Len(t) >= 3 /\ \E i \in DOMAIN t : t[i] \in {" ", "-"}

RuntimeError == [kind |-> "RuntimeError", status |-> 0]

\* creds.refresh(Request()): the one request get_drive_creds can make
RefreshRequest(outcome) ==
  [op |-> "refresh", fileId |-> NoId, parent |-> NoId, name |-> None,
   role |-> "", allow |-> TRUE, origin |-> NoId, builds |-> 0,
   executes |-> 1, outcome |-> outcome]

appUnchanged ==
  <<drive, src_id, full_name, anyone_role, lock_editors_sharing,
    root_name_template, dst_parent_id, new_root_id, created, retryVars,
    cloned, source_link_or_id, found, email>>

\* a form that takes any e-mail address
Submit_email_unchecked ==
  /\ pc = "submitted"
  /\ pc' = IF ~valid_full_name(full_name) THEN "invalid_name"
           ELSE "creds"
  /\ UNCHANGED <<stack, err, log, mail, appUnchanged>>

\* if not valid_full_name(..) / elif not valid_email(..) / else
Submit ==
  /\ pc = "submitted"
  /\ pc' = IF ~valid_full_name(full_name) THEN "invalid_name"
           ELSE IF ~valid_email(email) THEN "invalid_email"
           ELSE "creds"
  /\ UNCHANGED <<stack, err, log, mail, appUnchanged>>

\* drive_creds = get_drive_creds(); drive = build_drive(drive_creds): the
\* credentials are read from the secrets (which may lack them) and
\* refreshed when they have expired
GetDriveCreds ==
  /\ pc = "creds"
  /\ \/ /\ Raise(RuntimeError) /\ log' = log
     \/ /\ pc' = "config" /\ log' = log /\ UNCHANGED <<stack, err>>
     \/ \E o \in ExecOutcomes :
          /\ log' = Append(log, RefreshRequest(o))
          /\ IF o # OK THEN Raise(HttpError(o))
             ELSE pc' = "config" /\ UNCHANGED <<stack, err>>
  /\ UNCHANGED <<mail, appUnchanged>>

\* source_folder = st.secrets.get("source_folder"), the check that it is
\* set, and the call of copy_disk
CallCopyDisk ==
  /\ pc = "config"
  /\ IF source_link_or_id = None
       THEN Raise(RuntimeError)
       ELSE pc' = "extract" /\ UNCHANGED <<stack, err>>
  /\ UNCHANGED <<log, mail, appUnchanged>>

\* link = cloned.get("webViewLink") and the check that it is set
CheckLink ==
  /\ pc = "returned"
  /\ IF cloned.webViewLink = None
       THEN Raise(RuntimeError)
       ELSE pc' = "mail" /\ UNCHANGED <<stack, err>>
  /\ UNCHANGED <<log, mail, appUnchanged>>

\* the message send_email_gmail_multipart sends
Message(outcome) ==
  [to |-> Strip(email), link |-> cloned.webViewLink, outcome |-> outcome]

\* if gmail_creds_available(): get_gmail_creds() and
\* send_email_gmail_multipart(..); else the preview
SendEmail ==
  /\ pc = "mail"
  /\ \/ /\ pc' = "preview" /\ mail' = mail /\ UNCHANGED <<stack, err>>
     \/ /\ Raise(RuntimeError) /\ mail' = mail
     \/ \E o \in ExecOutcomes :
          /\ mail' = Append(mail, Message(o))
          /\ IF o # OK THEN Raise(HttpError(o))
             ELSE pc' = "sent" /\ UNCHANGED <<stack, err>>
  /\ UNCHANGED <<log, appUnchanged>>

(***************************************************************************)
(* Specifications                                                          *)
(***************************************************************************)
FullNames ==
  {None, <<" ", "J">>, PLACEHOLDER_TOKEN \o <<"x">>,
   <<"I", "M", "I", "E", "_", "N">>}

Templates == {None, PLACEHOLDER_TOKEN \o <<"m">>}

Targets == {NoId} \cup SrcIds

\* copy_disk has resolved its source to src_id and calls clone_folder_tree
Init ==
  /\ rs = RetryStart /\ calls = <<>> /\ waits = <<>>
  /\ drive \in {SourceItems(t[1], t[2]) : t \in Targets \X Targets}
  /\ src_id \in 1..4
  /\ full_name \in FullNames
  /\ anyone_role \in {"", "reader", "writer"}
  /\ lock_editors_sharing \in BOOLEAN
  /\ root_name_template \in Templates
  /\ dst_parent_id = NoId
  /\ new_root_id = NoId
  /\ pc = "clone"
  /\ stack = <<TreeFrame("clone_folder_tree", "get", src_id, NoId)>>
  /\ created = <<>>
  /\ log = <<>>
  /\ err = NoError
  /\ source_link_or_id = None
  /\ cloned = NoMetadata
  /\ found = <<>>
  /\ email = None
  /\ mail = <<>>

Next ==
  \/ GetRoot \/ CreateRoot \/ ListPage \/ CreateSubfolder
  \/ CallCopySingleFile \/ LoopReturn
  \/ CopyShortcutDangling \/ CopyShortcutResolve \/ CopyFile
  \/ SetAnyone \/ SetWritersCanShare \/ ReturnMetadata

Spec == Init /\ [][Next]_vars

(***************************************************************************)
(* with_retries on its own: func is any operation, the outcome of each of  *)
(* its invocations is chosen freely.                                       *)
(***************************************************************************)
InitRetry ==
  /\ rs = RetryStart /\ calls = <<>> /\ waits = <<>>
  /\ drive = SourceItems(NoId, NoId)
  /\ src_id = 1
  /\ full_name = None
  /\ anyone_role = ""
  /\ lock_editors_sharing = FALSE
  /\ root_name_template = None
  /\ dst_parent_id = NoId
  /\ new_root_id = NoId
  /\ pc = "idle"
  /\ stack = <<>>
  /\ created = <<>>
  /\ log = <<>>
  /\ err = NoError
  /\ source_link_or_id = None
  /\ cloned = NoMetadata
  /\ found = <<>>
  /\ email = None
  /\ mail = <<>>

\* an iteration whose invocation of func returns
AttemptReturns ==
  /\ rs.pc = "call"
  /\ rs' = RetryIter(rs, OK)
  /\ calls' = Append(calls, OK)
  /\ waits' = waits
  /\ UNCHANGED cloneVars

\* an iteration whose invocation raises HttpError with status s
AttemptRaises ==
  /\ rs.pc = "call"
  /\ \E s \in ErrorStatuses :
       /\ rs' = RetryIter(rs, s)
       /\ calls' = Append(calls, s)
       /\ waits' = IF rs'.slept > 0 THEN Append(waits, rs'.slept) ELSE waits
  /\ UNCHANGED cloneVars

NextRetry == AttemptReturns \/ AttemptRaises

SpecRetry == InitRetry /\ [][NextRetry]_vars

(***************************************************************************)
(* copy_disk from its first line, for a choice of source references.       *)
(***************************************************************************)
SourceReferences ==
  {FileIds[1],
   <<" ">> \o FileIds[1] \o <<" ", " ">>,
   SubSeq(FileIds[1], 1, 19),
   FileIds[1] \o <<"!">>,
   FileIds[2],
   None,
   <<" ", " ">>,
   <<"i", "d", "=">> \o FileIds[2],
   <<"/", "f", "o", "l", "d", "e", "r", "s", "/">> \o FileIds[2],
   <<"x", "/", "f", "o", "l", "d", "e", "r", "s", "/">> \o FileIds[1]
     \o <<"/", "v", "i", "e", "w">>,
   <<"/", "f", "i", "l", "e", "/", "d", "/">> \o FileIds[4]
     \o <<"/", "f", "o", "l", "d", "e", "r", "s", "/">> \o FileIds[2],
   <<"/", "f", "i", "l", "e", "/", "d", "/">> \o FileIds[4]
     \o <<"?", "i", "d", "=">> \o FileIds[3],
   <<"/", "f", "o", "l", "d", "e", "r", "s", "/", "?", "i", "d", "=">>
     \o FileIds[3] \o <<"&", "i", "d", "=">> \o FileIds[2],
   <<"/", "f", "o", "l", "d", "e", "r", "s", "/", "z", "z">>}

InitDisk ==
  /\ rs = RetryStart /\ calls = <<>> /\ waits = <<>>
  /\ drive = SourceItems(NoId, 6)
  /\ src_id = NoId
  /\ full_name = <<"J">>
  /\ anyone_role = "reader"
  /\ lock_editors_sharing = TRUE
  /\ root_name_template = None
  /\ dst_parent_id = NoId
  /\ new_root_id = NoId
  /\ pc = "extract"
  /\ stack = <<>>
  /\ created = <<>>
  /\ log = <<>>
  /\ err = NoError
  /\ source_link_or_id \in SourceReferences
  /\ cloned = NoMetadata
  /\ found = <<>>
  /\ email = None
  /\ mail = <<>>

NextDisk ==
  \/ ExtractId
  \/ GetRoot \/ CreateRoot \/ ListPage \/ CreateSubfolder
  \/ CallCopySingleFile \/ LoopReturn
  \/ CopyShortcutDangling \/ CopyShortcutResolve \/ CopyFile
  \/ SetAnyone \/ SetWritersCanShare \/ ReturnMetadata

SpecDisk == InitDisk /\ [][NextDisk]_vars

(***************************************************************************)
(* copy_disk for a choice of destination parents: none (the root of the    *)
(* account's drive), the source root, a folder of the source tree.         *)
(***************************************************************************)
DestinationParents == {NoId, 1, 2}

InitInside ==
  /\ rs = RetryStart /\ calls = <<>> /\ waits = <<>>
  /\ drive \in {SourceItems(t, 6) : t \in {NoId, 4}}
  /\ src_id = 1
  /\ full_name \in {None, <<"J">>}
  /\ anyone_role = "reader"
  /\ lock_editors_sharing = TRUE
  /\ root_name_template = None
  /\ dst_parent_id \in DestinationParents
  /\ new_root_id = NoId
  /\ pc = "clone"
  /\ stack = <<TreeFrame("clone_folder_tree", "get", src_id, NoId)>>
  /\ created = <<>>
  /\ log = <<>>
  /\ err = NoError
  /\ source_link_or_id = FileIds[src_id]
  /\ cloned = NoMetadata
  /\ found = <<>>
  /\ email = None
  /\ mail = <<>>

SpecInside == InitInside /\ [][Next]_vars

(***************************************************************************)
(* A clone followed by find_items_with_placeholder on what it made, for    *)
(* two source trees: the one whose names hold the token and one of the     *)
(* same shape whose names do not.                                          *)
(***************************************************************************)
PlainItems ==
  [i \in SrcIds |-> [SourceItems(NoId, 6)[i] EXCEPT !.name = <<"p">>]]

InitScan ==
  /\ rs = RetryStart /\ calls = <<>> /\ waits = <<>>
  /\ drive \in {SourceItems(NoId, 6), PlainItems}
  /\ src_id = 1
  /\ full_name \in {None, <<"J">>, PLACEHOLDER_TOKEN \o <<"x">>}
  /\ anyone_role = ""
  /\ lock_editors_sharing = TRUE
  /\ root_name_template \in Templates
  /\ dst_parent_id = NoId
  /\ new_root_id = NoId
  /\ pc = "clone"
  /\ stack = <<TreeFrame("clone_folder_tree", "get", src_id, NoId)>>
  /\ created = <<>>
  /\ log = <<>>
  /\ err = NoError
  /\ source_link_or_id = FileIds[src_id]
  /\ cloned = NoMetadata
  /\ found = <<>>
  /\ email = None
  /\ mail = <<>>

NextScan ==
  \/ GetRoot \/ CreateRoot \/ ListPage \/ CreateSubfolder
  \/ CallCopySingleFile \/ LoopReturn
  \/ CopyShortcutDangling \/ CopyShortcutResolve \/ CopyFile
  \/ SetWritersCanShare \/ ReturnMetadata
  \/ FindItemsStart \/ WalkListPage \/ WalkChild \/ WalkReturn

SpecScan == InitScan /\ [][NextScan]_vars

(***************************************************************************)
(* app.py: one submission of the form, for a choice of names, addresses    *)
(* and configured sources.                                                 *)
(***************************************************************************)
FormNames ==
  {None, <<"J", "o">>, <<"J", "a", "n">>, <<" ", "J", " ", "K", " ">>,
   <<" ", "-", " ">>, <<"A", "-", "B">>}

FormEmails ==
  {None, <<"a", "@", "b">>, <<"a", "@", "b", ".", "c">>,
   <<" ", "a", ".", "x", "@", "b", "-", "c", ".", "d", "e", " ">>,
   <<"a", "@", "-", "b", ".", "c">>, <<"@", "b", ".", "c">>,
   <<"a", " ", "@", "b", ".", "c">>, <<"a", "@", "b", ".", ".", "c">>}

InitApp ==
  /\ rs = RetryStart /\ calls = <<>> /\ waits = <<>>
  /\ drive = SourceItems(NoId, 6)
  /\ src_id = NoId
  /\ full_name \in FormNames
  /\ anyone_role = "writer"
  /\ lock_editors_sharing = TRUE
  /\ root_name_template = PLACEHOLDER_TOKEN \o <<"m">>
  /\ dst_parent_id = NoId
  /\ new_root_id = NoId
  /\ pc = "submitted"
  /\ stack = <<>>
  /\ created = <<>>
  /\ log = <<>>
  /\ err = NoError
  /\ source_link_or_id \in {None, FileIds[1], <<"i", "d", "=">> \o FileIds[2]}
  /\ cloned = NoMetadata
  /\ found = <<>>
  /\ email \in FormEmails
  /\ mail = <<>>

NextApp ==
  \/ Submit \/ GetDriveCreds \/ CallCopyDisk
  \/ ExtractId
  \/ GetRoot \/ CreateRoot \/ ListPage \/ CreateSubfolder
  \/ CallCopySingleFile \/ LoopReturn
  \/ CopyShortcutDangling \/ CopyShortcutResolve \/ CopyFile
  \/ SetAnyone \/ SetWritersCanShare \/ ReturnMetadata
  \/ CheckLink \/ SendEmail

SpecApp == InitApp /\ [][NextApp]_vars

(***************************************************************************)
(* Properties of with_retries (checked under SpecRetry)                    *)
(***************************************************************************)
\* the transient statuses as the specification lists them
TransientOfSpec == {403, 429, 500, 502, 503, 504}

\* the first n invocations of func failed with a transient status
FirstFailed(n) == Len(calls) >= n /\ \A i \in 1..n : calls[i] \in TransientOfSpec

\* C1: when func fails with a transient status on exactly its first k < 5
\* invocations and succeeds on the next, with_retries goes on to that next
\* attempt and returns its result after k+1 attempts, raising nothing.
C1_ReturnsAfterTransientFailures ==
  \A k \in 0..4 :
    /\ (Len(calls) = k /\ FirstFailed(k))
         => (rs.pc = "call" /\ rs.attempt = k + 1)
    /\ (Len(calls) = k + 1 /\ FirstFailed(k) /\ calls[k + 1] = OK)
         => (rs.pc = "returned" /\ rs.result = OK /\ rs.attempt = k + 1)

C1_Witness ==
  Len(calls) = 5 /\ FirstFailed(4) /\ calls[5] = OK /\ rs.pc = "returned"

\* C2 as stated: once the first 5 invocations have failed with a transient
\* status, with_retries ends only by raising, after exactly 6 attempts.
C2_FiveFailuresExhaust ==
  (FirstFailed(5) /\ rs.pc # "call") => (rs.pc = "raised" /\ Len(calls) = 6)

\* C2 amended: when the first 6 invocations fail with a transient status,
\* with_retries raises the 6th failure after exactly 6 attempts and never
\* returns a result.
C2_SixFailuresExhaust ==
  FirstFailed(6)
    => (rs.pc = "raised" /\ Len(calls) = 6 /\ rs.attempt = 6
        /\ rs.result = calls[6])

C2_Witness == FirstFailed(6) /\ rs.pc = "raised"

\* C4: a failure with a status outside the transient set is raised by the
\* attempt it occurs in, whatever its number: no attempt and no wait
\* follows it.
C4_FatalStatusRaisedAtOnce ==
  \A i \in 1..Len(calls) :
    calls[i] \notin TransientOfSpec \cup {OK}
      => (i = Len(calls) /\ rs.pc = "raised" /\ rs.result = calls[i]
          /\ Len(waits) = i - 1)

C4_Witness == Len(calls) = 3 /\ calls[3] = 400 /\ rs.pc = "raised"

C6_BackoffSchedule ==
  /\ \A k \in 1..Len(waits) : waits[k] = Pow2(k - 1)
  /\ Len(calls) <= 6
  /\ Len(waits) = IF rs.pc = "call" THEN Len(calls) ELSE Len(calls) - 1
  /\ Len(waits) <= 5
  /\ SumSeq(waits) <= 31

C6_Witness ==
  waits = <<1, 2, 4, 8, 16>> /\ Len(calls) = 6 /\ rs.pc = "raised"

(***************************************************************************)
(* Properties of the clone (checked under Spec)                            *)
(***************************************************************************)
Range(f) == {f[i] : i \in DOMAIN f}

IsShortcut(i) == drive[i].mimeType = SHORTCUT_MIME

IsFolder(i) == drive[i].mimeType = FOLDER_MIME

\* the folder that lists item i, NoId when none does
ParentOf(i) ==
  IF \E p \in SrcIds : i \in Range(drive[p].children)
    THEN CHOOSE p \in SrcIds : i \in Range(drive[p].children)
    ELSE NoId

\* the folders of the tree being cloned that lie above item i
RECURSIVE AncestorsInClone(_)
AncestorsInClone(i) ==
  IF i = src_id \/ ParentOf(i) = NoId
    THEN {}
    ELSE {ParentOf(i)} \cup AncestorsInClone(ParentOf(i))

\* the items of the tree being cloned, src_id excluded
Descendants == {i \in SrcIds : src_id \in AncestorsInClone(i)}

\* the end of the chain of targets that starts at item i: the first item
\* that is no shortcut, NoId when the chain dangles or never ends
RECURSIVE ChainEnd(_, _)
ChainEnd(i, fuel) ==
  IF i = NoId \/ fuel = 0 THEN NoId
  ELSE IF IsShortcut(i) THEN ChainEnd(drive[i].targetId, fuel - 1)
  ELSE i

Resolved(i) == ChainEnd(i, Cardinality(SrcIds) + 1)

\* C3 as stated: a request that fails with a transient status reaches the
\* caller only after execute() has been attempted max_attempts times.
C3_ExecuteIsRetried ==
  \A i \in DOMAIN log :
    log[i].outcome \in TransientOfSpec => log[i].executes = max_attempts

\* C7 as stated, for the shortcut children whose chain ends at a file:
\* no copy request is issued on a shortcut, and what such a child yields
\* is copied from an item that is no shortcut and carries the rendered name
\* of that child.
C7_ShortcutCopiedUnderItsRenderedName ==
  /\ \A i \in DOMAIN log :
       log[i].op = "copy" => ~IsShortcut(log[i].fileId)
  /\ \A k \in DOMAIN created :
       (created[k].origin \in Descendants /\ IsShortcut(created[k].origin)
        /\ ~IsFolder(created[k].src))
         => /\ ~IsShortcut(created[k].src)
            /\ created[k].name =
                 _rename_with_placeholder(drive[created[k].origin].name,
                                          FullName)

\* C8 as stated: no file-copy request is issued on a folder; a shortcut
\* child whose target is a folder yields a folder of the shortcut's
\* rendered name.
C8_FolderTargetClonedAsFolder ==
  /\ \A i \in DOMAIN log : log[i].op = "copy" => ~IsFolder(log[i].fileId)
  /\ \A k \in DOMAIN created :
       (created[k].origin \in Descendants /\ IsShortcut(created[k].origin)
        /\ IsFolder(Resolved(created[k].origin)))
         => created[k].mimeType = FOLDER_MIME

\* a shortcut of the tree being cloned whose chain ends at one of the
\* folders above it
ShortcutToAncestor(i) ==
  /\ i \in Descendants /\ IsShortcut(i)
  /\ Resolved(i) \in AncestorsInClone(i)

\* no request failed, the copy requests on folders aside (the remote may
\* accept or reject them)
NoFailureElsewhere ==
  \A i \in DOMAIN log :
    log[i].outcome # OK => (log[i].op = "copy" /\ IsFolder(log[i].fileId))

\* C9 as stated: when a shortcut chain of the tree leads back to a folder
\* above the shortcut, clone_folder_tree, once it has ended, has failed
\* with CyclicStructure.
C9_AncestorCycleFails ==
  ((\E i \in SrcIds : ShortcutToAncestor(i)) /\ IsFolder(src_id)
   /\ pc # "clone" /\ NoFailureElsewhere)
    => err.kind = "CyclicStructure"

\* a child of the tree being cloned that is a shortcut without targetId
Dangling(i) ==
  i \in Descendants /\ IsShortcut(i) /\ drive[i].targetId = NoId

\* clone_folder_tree has returned
CloneReturned == new_root_id # NoId

\* the loop has called copy_single_file on a dangling shortcut child
AtDangling ==
  /\ InCopy /\ Top.src_file.id = Top.origin /\ Dangling(Top.origin)

\* C10: a shortcut child without target id yields no request and no item,
\* raises nothing, and the loop goes on with the siblings that follow it.
C10_DanglingState ==
  \A d \in SrcIds :
    Dangling(d) =>
      /\ \A i \in DOMAIN log : log[i].origin # d
      /\ \A k \in DOMAIN created : created[k].origin # d
      /\ CloneReturned =>
           \A c \in Range(drive[ParentOf(d)].children) :
             ~Dangling(c) => \E i \in DOMAIN log : log[i].origin = c

C10_DanglingStep ==
  AtDangling =>
    /\ log' = log /\ created' = created
    /\ err' = NoError /\ pc' = "clone"
    /\ stack' = Caller

C10_DanglingShortcutSkipped == []C10_DanglingState /\ [][C10_DanglingStep]_vars

C10_Witness ==
  /\ src_id = 1 /\ Dangling(3) /\ pc = "returned"
  /\ \E k \in DOMAIN created : created[k].origin = 4

\* a request that creates an item
IsWrite(e) == e.op \in {"create", "copy"}

\* the positions in log of the writes that succeeded: number k is the
\* request that created created[k]
OkWrites ==
  SelectSeq([i \in 1..Len(log) |-> i],
            LAMBDA i : IsWrite(log[i]) /\ log[i].outcome = OK)

\* C11: the first write of a run creates the destination root under
\* dst_parent_id, no other write does, and every other write names as parent
\* a folder that an earlier, successful create_folder of the run created.
C11_ParentBeforeChild ==
  /\ Len(OkWrites) = Len(created)
  /\ CloneReturned => (created # <<>> /\ created[1].id = new_root_id)
  /\ \A i \in DOMAIN log :
       IsWrite(log[i]) =>
         IF \A j \in 1..(i - 1) : ~IsWrite(log[j])
           THEN /\ log[i].op = "create"
                /\ log[i].parent = dst_parent_id
                /\ log[i].origin = src_id
           ELSE \E k \in DOMAIN created :
                  /\ created[k].id = log[i].parent
                  /\ OkWrites[k] < i
                  /\ log[OkWrites[k]].op = "create"

C11_Witness ==
  /\ src_id = 1 /\ pc = "returned"
  /\ \E k \in DOMAIN created :
       created[k].origin = 6 /\ created[k].parent # new_root_id

\* what a child of the loop yielded, the copies taken of folders aside
YieldOfChild(k) ==
  /\ created[k].origin \in Descendants
  /\ IsShortcut(created[k].origin) => ~IsFolder(created[k].src)

\* C12 as stated: with a substitution value set, the name of every item
\* below the destination root is the display name of its source item with
\* each occurrence of the token replaced by the value, once.
C12_NamesSubstitutedOnce ==
  FullName # None =>
    \A k \in DOMAIN created :
      YieldOfChild(k) =>
        created[k].name =
          Replace(drive[created[k].origin].name, PLACEHOLDER_TOKEN, FullName)

\* value v and the token cannot overlap: neither contains the other, the
\* token begins with no end of v and ends with no beginning of v
NoOverlap(v, t) ==
  /\ v # <<>>
  /\ ~Contains(v, t) /\ ~Contains(t, v)
  /\ \A n \in 1..Len(v) :
       n <= Len(t) =>
         /\ SubSeq(t, 1, n) # SubSeq(v, Len(v) - n + 1, Len(v))
         /\ SubSeq(t, Len(t) - n + 1, Len(t)) # SubSeq(v, 1, n)

\* C13 as stated: with a substitution value set, after a completed clone
\* no name of the destination tree contains the token.
C13_NoTokenLeft ==
  (FullName # None /\ pc = "returned")
    => \A k \in DOMAIN created : ~Contains(created[k].name, PLACEHOLDER_TOKEN)

\* C13 amended: with a substitution value that cannot overlap the token,
\* after a completed clone no name of the destination tree, the root's
\* included, contains the token.
C13_NoTokenLeftUnlessValueBringsIt ==
  (NoOverlap(FullName, PLACEHOLDER_TOKEN) /\ pc = "returned")
    => \A k \in DOMAIN created : ~Contains(created[k].name, PLACEHOLDER_TOKEN)

C13_Witness ==
  /\ NoOverlap(FullName, PLACEHOLDER_TOKEN) /\ pc = "returned"
  /\ src_id = 1 /\ root_name_template # None
  /\ \E k \in DOMAIN created : created[k].origin = 4
  /\ \E k \in DOMAIN created : created[k].origin = 3

\* the template, the value and the root name of the example
ExampleTemplate ==
  PLACEHOLDER_TOKEN \o
    <<" ", "m", "a", "t", "u", "r", "a", " ", "i", "n", "f", "o",
      "r", "m", "a", "t", "y", "k", "a", " ", "I", "T">>

ExampleFullName ==
  <<"J", "a", "n", " ", "K", "o", "w", "a", "l", "s", "k", "i">>

ExampleRootName == ExampleFullName \o SubSeq(ExampleTemplate, 14, 35)

\* C14: the destination root is named after the template, each occurrence
\* of the token replaced by the substitution value (left in place when the
\* value is absent), or, without template, after the source root's own
\* name rendered as a child name.
C14_RootName ==
  /\ created # <<>> =>
       created[1].name =
         IF root_name_template # None
           THEN IF FullName # None
                  THEN Replace(root_name_template, PLACEHOLDER_TOKEN, FullName)
                  ELSE root_name_template
           ELSE IF FullName # None
                  THEN Replace(drive[src_id].name, PLACEHOLDER_TOKEN, FullName)
                  ELSE drive[src_id].name
  /\ _render_root_name(ExampleTemplate, drive[src_id].name, ExampleFullName)
       = ExampleRootName

C14_Witness ==
  /\ created # <<>> /\ root_name_template # None /\ FullName = <<"J">>
  /\ created[1].name = <<"J", "m">>

\* the folders and the leaf items of the source below item i once shortcuts
\* are replaced by what their chain ends at (nothing for a dangling one);
\* ok is FALSE when that replacement never ends
RECURSIVE CountItem(_, _), CountList(_, _)
CountItem(i, fuel) ==
  IF fuel = 0 THEN [ok |-> FALSE, folders |-> 0, leaves |-> 0]
  ELSE IF IsShortcut(i) /\ Resolved(i) = NoId
    THEN [ok |-> TRUE, folders |-> 0, leaves |-> 0]
  ELSE IF IsFolder(Resolved(i))
    THEN LET c == CountList(drive[Resolved(i)].children, fuel - 1)
         IN [ok |-> c.ok, folders |-> 1 + c.folders, leaves |-> c.leaves]
  ELSE [ok |-> TRUE, folders |-> 0, leaves |-> 1]

CountList(s, fuel) ==
  IF s = <<>> THEN [ok |-> TRUE, folders |-> 0, leaves |-> 0]
  ELSE LET h == CountItem(Head(s), fuel)
           t == CountList(Tail(s), fuel)
       IN [ok |-> h.ok /\ t.ok, folders |-> h.folders + t.folders,
           leaves |-> h.leaves + t.leaves]

SourceCount == CountItem(src_id, Cardinality(SrcIds) + 1)

DestinationFolders ==
  Cardinality({k \in DOMAIN created : created[k].mimeType = FOLDER_MIME})

DestinationLeaves ==
  Cardinality({k \in DOMAIN created : created[k].mimeType # FOLDER_MIME})

\* C15 as stated: once the clone has returned, the destination tree holds
\* as many folders and as many leaf items as the source tree does after
\* shortcut resolution, dangling shortcuts left out.
C15_StructuralFidelity ==
  (CloneReturned /\ SourceCount.ok)
    => /\ DestinationFolders = SourceCount.folders
       /\ DestinationLeaves = SourceCount.leaves

\* C16: when the source root is no folder, the clone fails with the
\* ValueError of clone_folder_tree (NotAFolder) right after the root has
\* been fetched: no create, copy, permission or update request is issued
\* and nothing is created.
C16_NotAFolder ==
  ~IsFolder(src_id) =>
    /\ created = <<>>
    /\ \A i \in DOMAIN log : i = 1 /\ log[i].op = "get" /\ log[i].fileId = src_id
    /\ (log # <<>> /\ log[1].outcome = OK) => (pc = "raised" /\ err = ValueError)

C16_Witness ==
  /\ IsShortcut(src_id) /\ drive[src_id].targetId = 2
  /\ Len(log) = 1 /\ err = ValueError

\* C17: a get, list, create or copy request that fails is the last request
\* of the run: its error leaves copy_disk, and every item created before it
\* is still in the store as it was created.
C17_FailureAborts ==
  /\ \A i \in DOMAIN log :
       (log[i].op \in {"get", "list", "create", "copy"} /\ log[i].outcome # OK)
         => /\ i = Len(log)
            /\ pc = "raised"
            /\ err = HttpError(log[i].outcome)
  /\ pc = "raised" =>
       /\ Len(created) = Len(OkWrites)
       /\ \A k \in DOMAIN created :
            /\ created[k].name = log[OkWrites[k]].name
            /\ created[k].parent = log[OkWrites[k]].parent

C17_Witness ==
  /\ pc = "raised" /\ Len(created) >= 3
  /\ Last(log).op = "copy" /\ Last(log).outcome = 404

\* a request that changes how an item is shared
IsShare(e) == e.op \in {"permission", "update"}

Requests(op) == {i \in DOMAIN log : log[i].op = op}

\* C18: sharing requests are issued only once clone_folder_tree has
\* returned, after every create and copy request of the run, all requests
\* before them having succeeded; they name the new destination root, each
\* kind is issued at most once, and no other item has its sharing changed.
C18_SharingOnceOnFinishedRoot ==
  /\ \A i \in DOMAIN log :
       IsShare(log[i]) =>
         /\ CloneReturned
         /\ log[i].fileId = new_root_id /\ new_root_id = created[1].id
         /\ \A j \in DOMAIN log : IsWrite(log[j]) => j < i
         /\ \A j \in 1..(i - 1) : log[j].outcome = OK
  /\ Cardinality(Requests("permission")) <= 1
  /\ Cardinality(Requests("update")) <= 1
  /\ \A k \in DOMAIN created :
       k # 1 => (created[k].permissions = <<>> /\ created[k].writersCanShare)

C18_Witness ==
  /\ pc = "returned" /\ src_id = 1 /\ Len(created) >= 4
  /\ Requests("permission") # {} /\ Requests("update") # {}

\* C19: after copy_disk has returned with anyone_role = r and
\* lock_editors_sharing true, the destination root carries one
\* anyone-with-link permission of role r that is not discoverable, and its
\* writersCanShare flag is false.
C19_GrantAndLock ==
  (pc = "returned" /\ anyone_role # "" /\ lock_editors_sharing)
    => /\ Root.permissions =
            <<[type |-> "anyone", role |-> anyone_role,
               allowFileDiscovery |-> FALSE]>>
       /\ Root.writersCanShare = FALSE

C19_Witness ==
  /\ pc = "returned" /\ anyone_role = "writer" /\ lock_editors_sharing
  /\ Len(Root.permissions) = 1 /\ ~Root.writersCanShare

\* C20: a grant is requested only when anyone_role is present and an update
\* only when lock_editors_sharing is true; a run that returns has issued
\* each of the two exactly when its own argument asks for it, whatever the
\* other one is; with both absent no sharing request is issued and the
\* root's sharing stays as created.
C20_SharingEffectsIndependent ==
  /\ Requests("permission") # {} => anyone_role # ""
  /\ Requests("update") # {} => lock_editors_sharing
  /\ pc = "returned" =>
       /\ Requests("permission") # {} <=> anyone_role # ""
       /\ Requests("update") # {} <=> lock_editors_sharing
       /\ Root.permissions # <<>> <=> anyone_role # ""
       /\ Root.writersCanShare <=> ~lock_editors_sharing

C20_Witness ==
  /\ pc = "returned" /\ anyone_role = "" /\ lock_editors_sharing
  /\ Requests("update") # {} /\ Requests("permission") = {}
  /\ Root.permissions = <<>> /\ ~Root.writersCanShare

\* item a and the items listed below it
RECURSIVE SubtreeOf(_)
SubtreeOf(a) ==
  {a} \cup UNION {SubtreeOf(c) : c \in Range(drive[a].children)}

\* the folders the clone lists
ListedFolders == {f \in SubtreeOf(src_id) : IsFolder(f)}

\* a shortcut without targetId
NoTarget(i) == IsShortcut(i) /\ drive[i].targetId = NoId

\* the child number a list request starts at, and the one its page ends at
PageStart(e) == IF e.parent = NoId THEN 1 ELSE e.parent

PageEnd(e) ==
  LET n == Len(drive[e.fileId].children)
  IN IF PageStart(e) + PageSize - 1 < n THEN PageStart(e) + PageSize - 1 ELSE n

\* C23: list_children asks for a page beyond the first only after a page of
\* the same folder that ended short of the last child, each page once and in
\* order; when a page is asked for, every child of the pages before it has
\* been handled and no child from it on has; every child is written for at
\* most once, and all of them once the clone has returned; a page request
\* that fails is the last request of the run, its error leaves the run and
\* what was created before is still there.
C23_PagesInOrder ==
  /\ \A i \in DOMAIN log :
       log[i].op = "list" =>
         LET f == log[i].fileId
             kids == drive[f].children
             start == PageStart(log[i])
             before == {j \in 1..(i - 1) :
                          log[j].op = "list" /\ log[j].fileId = f}
         IN /\ start = 1 => before = {}
            /\ start # 1 =>
                 /\ start <= Len(kids)
                 /\ \E j \in before :
                      log[j].outcome = OK /\ PageEnd(log[j]) + 1 = start
            /\ \A j \in before : PageStart(log[j]) < start
            /\ \A p \in DOMAIN kids :
                 /\ p >= start => \A j \in 1..i : log[j].origin # kids[p]
                 /\ (p < start /\ ~NoTarget(kids[p]))
                      => \E j \in 1..i : log[j].origin = kids[p]
            /\ log[i].outcome # OK =>
                 /\ i = Len(log) /\ pc = "raised"
                 /\ err = HttpError(log[i].outcome)
                 /\ \A j \in 1..i :
                      (IsWrite(log[j]) /\ log[j].outcome = OK) =>
                        \E k \in DOMAIN created :
                          /\ created[k].origin = log[j].origin
                          /\ created[k].name = log[j].name
  /\ \A i, j \in DOMAIN log :
       (IsWrite(log[i]) /\ IsWrite(log[j]) /\ log[i].origin = log[j].origin)
         => i = j
  /\ CloneReturned =>
       \A f \in ListedFolders :
         /\ \E i \in DOMAIN log :
              /\ log[i].op = "list" /\ log[i].fileId = f
              /\ PageEnd(log[i]) = Len(drive[f].children)
         /\ \A p \in DOMAIN drive[f].children :
              ~NoTarget(drive[f].children[p])
                => \E j \in DOMAIN log : log[j].origin = drive[f].children[p]

C23_Witness ==
  /\ src_id = 1 /\ pc = "raised" /\ err = HttpError(404)
  /\ Last(log).op = "list" /\ Last(log).fileId = 1 /\ Last(log).parent # NoId
  /\ \E k \in DOMAIN created : created[k].origin = 3
  /\ \E k \in DOMAIN created : created[k].origin = 6

\* C24: for two children a and b of a listed folder, a before b in the
\* listing, every request made for a or for an item below a precedes every
\* request made for b or below b, and by the first request for b every item
\* below a (dangling shortcuts aside) has had its requests.
C24_DepthFirst ==
  \A f \in ListedFolders :
    \A p, q \in DOMAIN drive[f].children :
      p < q =>
        LET belowA == SubtreeOf(drive[f].children[p])
            belowB == SubtreeOf(drive[f].children[q])
            forA == {i \in DOMAIN log : log[i].origin \in belowA}
            forB == {j \in DOMAIN log : log[j].origin \in belowB}
        IN /\ \A i \in forA : \A j \in forB : i < j
           /\ forB # {} =>
                \A d \in belowA :
                  (IsShortcut(d) /\ drive[d].targetId = NoId)
                  \/ \E i \in forA :
                       /\ log[i].origin = d /\ log[i].outcome = OK
                       /\ IsWrite(log[i]) \/ IsShortcut(d)

C24_Witness ==
  /\ src_id = 1 /\ IsFolder(src_id)
  /\ \E i, j, k \in DOMAIN log :
       /\ i < j /\ j < k
       /\ log[i].op = "create" /\ log[i].origin = 2
       /\ log[j].op = "copy" /\ log[j].origin = 6
       /\ log[k].op = "copy" /\ log[k].origin = 4

\* the destination items as the writes of the run left them, sharing aside
Unshared(item) == [item EXCEPT !.permissions = <<>>, !.writersCanShare = TRUE]

\* C29: with a role to grant and the lock asked for, an update request is
\* issued only after a grant request that succeeded; a grant that fails is
\* the last request of the run, its error leaves copy_disk, no update is
\* issued, and every item of the finished clone is still there with its
\* sharing as created.
C29_GrantBeforeLock ==
  (anyone_role # "" /\ lock_editors_sharing) =>
    /\ \A j \in Requests("update") :
         \E i \in Requests("permission") : i < j /\ log[i].outcome = OK
    /\ \A i \in Requests("permission") :
         log[i].outcome # OK =>
           /\ i = Len(log) /\ Requests("update") = {}
           /\ pc = "raised" /\ err = HttpError(log[i].outcome)
           /\ CloneReturned
           /\ Len(created) = Len(OkWrites)
           /\ \A k \in DOMAIN created :
                /\ created[k] = Unshared(created[k])
                /\ created[k].name = log[OkWrites[k]].name

C29_Witness ==
  /\ anyone_role = "writer" /\ lock_editors_sharing /\ src_id = 1
  /\ pc = "raised" /\ err = HttpError(404)
  /\ Last(log).op = "permission" /\ Len(created) >= 4
  /\ Root.permissions = <<>> /\ Root.writersCanShare

\* the frames of copy_single_file on the stack: the chain of shortcuts being
\* resolved
CopyFrames == {i \in DOMAIN stack : stack[i].fn = "copy_single_file"}

\* C25 as stated, for source graphs in which no shortcut targets itself: the
\* resolution of a shortcut never takes up again an item it is already
\* resolving, and the run never ends by exhausting the call stack.
C25_NoNodeTwiceOnPath ==
  (\A s \in SrcIds : drive[s].targetId # s) =>
    /\ \A i, j \in CopyFrames :
         i < j => stack[i].src_file.id # stack[j].src_file.id
    /\ err # RecursionError

\* the requests that read item n as the source of a copy or list its
\* children from the start
VisitsOf(n) ==
  {i \in DOMAIN log :
     /\ log[i].fileId = n
     /\ log[i].op = "copy" \/ (log[i].op = "list" /\ log[i].parent = NoId)}

\* every shortcut is dangling or targets a plain file
ShortcutsEndAtFiles ==
  \A s \in SrcIds :
    (IsShortcut(s) /\ drive[s].targetId # NoId)
      => drive[drive[s].targetId].mimeType = FILE_MIME

\* C26 as stated, for source graphs whose shortcuts target plain files: no
\* source item is copied from or listed more than once in a run.
C26_SourceVisitedOnce ==
  ShortcutsEndAtFiles => \A n \in SrcIds : Cardinality(VisitsOf(n)) <= 1

\* item n is item c or lies on the chain of targets that starts at c
RECURSIVE OnChain(_, _, _)
OnChain(n, c, fuel) ==
  /\ c # NoId /\ fuel > 0
  /\ n = c \/ (IsShortcut(c) /\ OnChain(n, drive[c].targetId, fuel - 1))

\* C26 amended: no page of a folder is listed twice; every destination item
\* was written by one request of its own, under the id the remote gave it;
\* a child of a listed folder gives rise to at most one write, whose source
\* is the child or an item on its chain of targets; so a source item is
\* copied from at most once per child that leads to it.
C26_WrittenOnce ==
  /\ \A i, j \in Requests("list") :
       (log[i].fileId = log[j].fileId /\ log[i].parent = log[j].parent)
         => i = j
  /\ Len(created) = Len(OkWrites)
  /\ \A k, m \in DOMAIN created : created[k].id = created[m].id => k = m
  /\ LET writes == OkWrites
     IN \A k \in DOMAIN created :
          /\ created[k].name = log[writes[k]].name
          /\ created[k].parent = log[writes[k]].parent
          /\ created[k].origin = log[writes[k]].origin
  /\ \A i, j \in Requests("copy") : log[i].origin = log[j].origin => i = j
  /\ \A i \in Requests("copy") :
       OnChain(log[i].fileId, log[i].origin, RecursionLimit)

C26_Witness ==
  /\ pc = "returned" /\ src_id = 1
  /\ drive[3].targetId = 7 /\ drive[5].targetId = 7
  /\ \E k, m \in DOMAIN created :
       /\ k # m /\ created[k].src = 7 /\ created[m].src = 7
       /\ created[k].origin = 3 /\ created[m].origin = 5

(***************************************************************************)
(* Properties of copy_disk's source reference (checked under SpecDisk)     *)
(***************************************************************************)
\* id is what follows the leftmost place of s where one of the literals
\* lits stands before an identifier character: all the identifier
\* characters from there on
FollowsFirst(s, lits, id) ==
  \E p \in DOMAIN s : \E lit \in lits :
    LET k == p + Len(lit)
        n == Len(id)
    IN /\ LiteralAt(s, p, lit)
       /\ n >= 1 /\ k + n - 1 <= Len(s)
       /\ SubSeq(s, k, k + n - 1) = id
       /\ \A i \in DOMAIN id : id[i] \in IdChars
       /\ k + n <= Len(s) => s[k + n] \notin IdChars
       /\ \A q \in 1..(p - 1) : \A l \in lits :
            ~(LiteralAt(s, q, l) /\ q + Len(l) <= Len(s)
              /\ s[q + Len(l)] \in IdChars)

HasPattern(s, lits) ==
  \E p \in DOMAIN s : \E lit \in lits :
    /\ LiteralAt(s, p, lit)
    /\ p + Len(lit) <= Len(s) /\ s[p + Len(lit)] \in IdChars

\* the trimmed reference is a bare identifier
BareId(s) ==
  Len(s) >= 20
  /\ \A i \in DOMAIN s : s[i] \in IdChars

\* C21: for the trimmed reference s, extract_id_from_url returns s when s
\* is a bare identifier of at least 20 identifier characters; otherwise the
\* identifier after /folders/ when that pattern occurs, otherwise the one
\* after /file/d/, otherwise the one after ?id= or &id=; it raises
\* ValueError when none of these holds; copy_disk clones the item of that
\* identifier.
C21_ExtractId ==
  LET s == Strip(source_link_or_id)
      r == extract_id_from_url(source_link_or_id)
  IN /\ BareId(s) => r = [ok |-> TRUE, id |-> s]
     /\ (~BareId(s) /\ HasPattern(s, FoldersPattern))
          => (r.ok /\ FollowsFirst(s, FoldersPattern, r.id))
     /\ (~BareId(s) /\ ~HasPattern(s, FoldersPattern)
         /\ HasPattern(s, FilePattern))
          => (r.ok /\ FollowsFirst(s, FilePattern, r.id))
     /\ (~BareId(s) /\ ~HasPattern(s, FoldersPattern)
         /\ ~HasPattern(s, FilePattern) /\ HasPattern(s, QueryPattern))
          => (r.ok /\ FollowsFirst(s, QueryPattern, r.id))
     /\ (~BareId(s) /\ ~HasPattern(s, FoldersPattern)
         /\ ~HasPattern(s, FilePattern) /\ ~HasPattern(s, QueryPattern))
          => ~r.ok
     /\ pc # "extract" =>
          IF r.ok THEN src_id = Lookup(r.id) /\ (err = ValueError => log # <<>>)
          ELSE pc = "raised" /\ err = ValueError /\ log = <<>>

C21_Witness ==
  /\ source_link_or_id =
       <<"/", "f", "i", "l", "e", "/", "d", "/">> \o FileIds[4]
         \o <<"/", "f", "o", "l", "d", "e", "r", "s", "/">> \o FileIds[2]
  /\ src_id = 2 /\ pc = "returned"

\* no pattern of extract_id_from_url applies to the trimmed reference
Unresolvable ==
  LET s == Strip(source_link_or_id)
  IN /\ ~BareId(s)
     /\ ~HasPattern(s, FoldersPattern) /\ ~HasPattern(s, FilePattern)
     /\ ~HasPattern(s, QueryPattern)

\* C27: with a source reference that cannot be resolved, copy_disk issues
\* no request and creates nothing; its first step raises ValueError, with
\* no attempt of with_retries made and no wait.
C27_InvalidReferenceAtOnce ==
  Unresolvable =>
    /\ log = <<>> /\ created = <<>> /\ mail = <<>>
    /\ calls = <<>> /\ waits = <<>> /\ rs = RetryStart
    /\ new_root_id = NoId /\ cloned = NoMetadata
    /\ pc # "extract" => (pc = "raised" /\ err = ValueError /\ stack = <<>>)

C27_Witness ==
  /\ source_link_or_id = <<"i", "d", "=">> \o FileIds[2]
  /\ pc = "raised" /\ err = ValueError /\ log = <<>>

(***************************************************************************)
(* Properties of the destination parent (checked under SpecInside)         *)
(***************************************************************************)
\* the requests clone_folder_tree makes to read an item: the get of the
\* source root and of shortcut targets, the listings, the copies
ReadsAsSource ==
  {i \in DOMAIN log :
     log[i].op \in {"get", "list", "copy"} /\ log[i].origin # NoId}

\* C28 as stated: whatever the destination parent, no request of the clone
\* reads an item that the run created.
C28_CreatedNeverRead ==
  \A i \in ReadsAsSource :
    \A k \in DOMAIN created : log[i].fileId # created[k].id

(***************************************************************************)
(* Properties of find_items_with_placeholder (checked under SpecScan)      *)
(***************************************************************************)
\* the destination items whose name holds the token
StillWithToken ==
  {k \in DOMAIN created : Contains(created[k].name, PLACEHOLDER_TOKEN)}

\* C22 as stated: once the scan of the new root has ended, it has yielded
\* each destination item whose name holds the token (the root among them)
\* once and nothing else, so that it yielded nothing only if no name holds
\* the token.
C22_ScanFindsEveryName ==
  pc = "scanned" =>
    /\ \A k \in StillWithToken :
         Cardinality({j \in DOMAIN found : found[j].id = created[k].id}) = 1
    /\ \A j \in DOMAIN found :
         \E k \in StillWithToken : found[j].id = created[k].id
    /\ found = <<>> => StillWithToken = {}

\* what does hold: each item below the root whose name holds the token is
\* yielded once, with its name and mimeType, and nothing else is
DescendantsYieldedOnce ==
  pc = "scanned" =>
    /\ \A k \in StillWithToken :
         Cardinality({j \in DOMAIN found : found[j].id = created[k].id})
           = IF created[k].id = cloned.id THEN 0 ELSE 1
    /\ \A j \in DOMAIN found :
         \E k \in StillWithToken :
           found[j] = [id |-> created[k].id, name |-> created[k].name,
                       mimeType |-> created[k].mimeType]

(***************************************************************************)
(* Properties of the form of app.py (checked under SpecApp)                *)
(***************************************************************************)
\* C30: a submission whose name or address fails validation ends at the
\* validation with no request made, nothing created and no mail; a mail is
\* sent only once copy_disk has returned the metadata of the new root with
\* a link, every request before it having succeeded, and then one mail, to
\* the trimmed address, carrying that link; after a request of the clone
\* has failed, or copy_disk has returned without a link, no mail is sent.
C30_MailOnlyAfterClone ==
  /\ (~valid_full_name(full_name) \/ ~valid_email(email)) =>
       /\ log = <<>> /\ mail = <<>> /\ created = <<>>
       /\ pc \in {"submitted", "invalid_name", "invalid_email"}
  /\ mail # <<>> =>
       /\ Len(mail) = 1
       /\ mail[1].to = Strip(email) /\ mail[1].link = cloned.webViewLink
       /\ cloned.webViewLink # None
       /\ new_root_id # NoId /\ cloned.id = new_root_id
       /\ log # <<>> /\ Last(log).op = "get" /\ Last(log).fileId = new_root_id
       /\ \A i \in DOMAIN log : log[i].outcome = OK
  /\ (\E i \in DOMAIN log : log[i].outcome # OK) => mail = <<>>
  /\ (pc \in {"returned", "raised"} /\ cloned.webViewLink = None)
       => mail = <<>>

C30_Witness ==
  /\ pc = "sent" /\ full_name = <<" ", "J", " ", "K", " ">>
  /\ Len(email) = 12
  /\ mail = <<[to |-> SubSeq(email, 2, 11), link |-> WebViewLink,
               outcome |-> OK]>>
  /\ Len(created) >= 4
====
